---- MODULE Spec2Model ----
(***************************************************************************)
(* Model of the HTTP request engine of lib-go-http (src/Service.go):       *)
(* Service.HttpRequest, NewRetryableRequest, RetryableRequest.Do,          *)
(* Service.doWithRetry, Service.RequestCount and Service.ResetRequestCount.*)
(*                                                                         *)
(* A thread of Threads runs one HttpRequest call at a time.  The steps of  *)
(* a call are: Build (lines 101-195), LoadCount and StoreCount (the two    *)
(* memory accesses of requestCount++ on line 197), LoopHead and Send (one  *)
(* iteration of the loop of doWithRetry), Post (lines 208-281) and Discard *)
(* (the caller drops the results).  RequestConfig.SetParameter and FullUrl *)
(* are modelled on a RequestConfig of their own (SpecParams).  To compare  *)
(* a call made with ig.Debug() false with the same call made with          *)
(* ig.Debug() true, SpecRuns takes the two runs through the same steps     *)
(* side by side, the transport and the other goroutines acting alike on    *)
(* both.                                                                   *)
(*                                                                         *)
(* Durations are in milliseconds.  uint and int64 values are modelled as   *)
(* unbounded integers: every counter stays far below 2^31 in the bounds    *)
(* explored.                                                               *)
(***************************************************************************)
EXTENDS Integers, Sequences, FiniteSets, TLC

\* ------------------------------------------------------------------------
\* Bounds of the exploration
\* ------------------------------------------------------------------------

\* largest per-call MaxRetries override that is enumerated
MaxOverride == 2

\* number of logical calls that may complete between two resets
MaxCalls == 2

\* number of SetParameter calls on one RequestConfig
MaxSets == 3

\* number of times another goroutine advances the counter during a call
\* that is followed with ig.Debug() false and true
MaxOthers == 1

\* the threads that call into one Service
Threads == {"t1", "t2"}

\* ------------------------------------------------------------------------
\* Program constants
\* ------------------------------------------------------------------------

defaultMaxRetries == 5

AcceptJson == "json"

AcceptXml == "xml"

AcceptRaw == "raw"

\* ------------------------------------------------------------------------
\* Values
\* ------------------------------------------------------------------------

\* a nil *uint is <<>>, a pointer to n is <<n>>
NilUint == <<>>

\* a nil []byte / nil reader, and a byte slice holding bs
NilBytes == [nil |-> TRUE, bytes |-> <<>>]

Bytes(bs) == [nil |-> FALSE, bytes |-> bs]

\* *http.Response: nil, or the response obtained by send number att
NilResponse == [nil |-> TRUE, StatusCode |-> 0, att |-> 0]

Response(status, n) == [nil |-> FALSE, StatusCode |-> status, att |-> n]

\* a Go error value (its message, as a sequence of words) or nil
NilErr == [nil |-> TRUE, msg |-> <<>>]

GoError(m) == [nil |-> FALSE, msg |-> m]

\* *errortools.Error: nil, or the carrier with what the setters stored
NilError == [nil |-> TRUE, message |-> <<>>, request |-> FALSE,
             body |-> NilBytes, response |-> NilResponse,
             responseSet |-> FALSE, extra |-> <<>>]

NewError == [NilError EXCEPT !.nil = FALSE]

\* messages the transport's errors carry
MsgHandshakeGo == <<"net/http:", "TLS", "handshake", "timeout">>

MsgHandshakeLower == <<"remote", "error:", "tls", "handshake", "timeout">>

MsgRefused == <<"dial", "tcp:", "connection", "refused">>

MsgTimeoutOnly == <<"net/http:", "timeout", "awaiting", "response", "headers">>

\* strings.ToLower on one word
LowerWord(w) ==
    CASE w = "TLS" -> "tls"
      [] w = "Server" -> "server"
      [] OTHER -> w

\* strings.ToLower
ToLower(m) == [i \in 1..Len(m) |-> LowerWord(m[i])]

\* strings.Contains
Contains(m, sub) ==
    \E i \in 0..(Len(m) - Len(sub)) :
        \A j \in 1..Len(sub) : m[i + j] = sub[j]

\* fmt.Errorf("server returned statuscode %v", statusCode)
StatusMsgLower(s) == <<"server", "returned", "statuscode", ToString(s)>>

\* fmt.Sprintf("Server returned statuscode %v", response.StatusCode)
StatusMsgUpper(s) == <<"Server", "returned", "statuscode", ToString(s)>>

\* integer power of two: math.Pow(2, n) for n >= 0
RECURSIVE Pow2(_)
Pow2(n) == IF n <= 0 THEN 1 ELSE 2 * Pow2(n - 1)

\* ------------------------------------------------------------------------
\* External collaborators
\* ------------------------------------------------------------------------

\* the statuses ig.HttpRetry flags
RetryStatuses == {500, 503}

\* ig.HttpRetry(statusCode)
HttpRetry(statusCode) == statusCode \in RetryStatuses

\* rand.Float64(): a value num/den of [0, 1), as the pair <<num, den>>
RandFloats == {<<0, 1>>, <<2047, 2048>>}

\* a body model of the caller: which encoders accept it
NilModel == [nil |-> TRUE, jsonOk |-> FALSE, xmlOk |-> FALSE, formOk |-> FALSE]

ModelPlain == [nil |-> FALSE, jsonOk |-> TRUE, xmlOk |-> TRUE, formOk |-> TRUE]

ModelNoJson == [nil |-> FALSE, jsonOk |-> FALSE, xmlOk |-> FALSE, formOk |-> TRUE]

ModelNoForm == [nil |-> FALSE, jsonOk |-> TRUE, xmlOk |-> TRUE, formOk |-> FALSE]

\* json.Marshal(model): the encoding, or an error
JsonMarshal(m) ==
    IF m.jsonOk THEN [bytes |-> Bytes(<<3, 4>>), err |-> NilErr]
    ELSE [bytes |-> NilBytes, err |-> GoError(<<"json:", "unsupported", "type">>)]

\* xml.Marshal(model): the encoding, or an error
XmlMarshal(m) ==
    IF m.xmlOk THEN [bytes |-> Bytes(<<5, 6>>), err |-> NilErr]
    ELSE [bytes |-> NilBytes, err |-> GoError(<<"xml:", "unsupported", "type">>)]

\* utilities.StructToUrl(&model, "json"): the form encoding, or an error
StructToUrl(m) ==
    IF m.formOk THEN [bytes |-> Bytes(<<7>>), err |-> NilErr]
    ELSE [bytes |-> NilBytes, err |-> GoError(<<"StructToUrl:", "not", "a", "struct">>)]

\* ------------------------------------------------------------------------
\* http.Header
\* ------------------------------------------------------------------------

\* the header names of the model, in canonical form
HeaderNames == {"Accept", "Content-Type", "X-Api-Key"}

\* textproto.CanonicalMIMEHeaderKey: the canonical form of a key
CanonicalKey(k) ==
    CASE k = "accept" -> "Accept"
      [] k = "content-type" -> "Content-Type"
      [] k = "x-api-key" -> "X-Api-Key"
      [] OTHER -> k

\* a Header without entries; an absent name has the empty list
NoHeaders == [n \in HeaderNames |-> <<>>]

\* Header.Del(key)
HeaderDel(h, key) == [h EXCEPT ![CanonicalKey(key)] = <<>>]

\* Header.Add(key, value)
HeaderAdd(h, key, value) == [h EXCEPT ![CanonicalKey(key)] = Append(@, value)]

\* Header.Set(key, value)
HeaderSet(h, key, value) == [h EXCEPT ![CanonicalKey(key)] = <<value>>]

\* a nil *http.Header, and a pointer to the map m from keys to value lists
NilHeader == [nil |-> TRUE, map |-> <<>>]

HeaderOf(m) == [nil |-> FALSE, map |-> m]

\* ------------------------------------------------------------------------
\* RequestConfig.Url and RequestConfig.Parameters (url.Values)
\* ------------------------------------------------------------------------

\* RequestConfig.Url
BaseUrl == "https://host/path"

\* the parameter keys of the model in the order Values.Encode sorts them
ParamKeyOrder == <<"a", "b", "c">>

ParamKeys == {ParamKeyOrder[i] : i \in DOMAIN ParamKeyOrder}

ParamValues == {"1", "2"}

\* a nil *url.Values, and a pointer to the map m from keys to value lists
NilValues == [nil |-> TRUE, map |-> <<>>]

ValuesOf(m) == [nil |-> FALSE, map |-> m]

\* Values.Add(key, value)
ValuesAdd(m, key, value) ==
    [k \in DOMAIN m \cup {key} |->
        IF k # key THEN m[k]
        ELSE IF key \in DOMAIN m THEN Append(m[key], value)
        ELSE <<value>>]

\* Values.Set(key, value)
ValuesSet(m, key, value) ==
    [k \in DOMAIN m \cup {key} |-> IF k = key THEN <<value>> ELSE m[k]]

\* two encoded parts joined by "&"
Join(a, b) ==
    IF a = <<>> THEN b ELSE IF b = <<>> THEN a ELSE a \o <<"&">> \o b

\* the "key=value" parts of one key in Values.Encode
RECURSIVE EncodeValues(_, _)
EncodeValues(key, values) ==
    IF values = <<>> THEN <<>>
    ELSE Join(<<key, "=", Head(values)>>, EncodeValues(key, Tail(values)))

\* Values.Encode over the keys in sorted order
RECURSIVE EncodeFrom(_, _)
EncodeFrom(m, keys) ==
    IF keys = <<>> THEN <<>>
    ELSE Join(IF Head(keys) \in DOMAIN m
              THEN EncodeValues(Head(keys), m[Head(keys)])
              ELSE <<>>,
              EncodeFrom(m, Tail(keys)))

\* Values.Encode(), as the sequence of the pieces of the string
Encode(m) == EncodeFrom(m, ParamKeyOrder)

\* RequestConfig.FullUrl (lines 85-91) for Parameters p, as the sequence of
\* the pieces of the string
FullUrl(p) ==
    IF p.nil THEN <<BaseUrl>> ELSE <<BaseUrl, "?">> \o Encode(p.map)

\* RequestConfig.Parameters after SetParameter(key, value) (lines 93-99)
WithParameter(p, key, value) ==
    ValuesOf(ValuesSet(IF p.nil THEN <<>> ELSE p.map, key, value))

\* the RequestConfig.Parameters a caller starts from
ParamInits == {NilValues, ValuesOf(<<>>), ValuesOf("a" :> <<"1", "2">>)}

\* ------------------------------------------------------------------------
\* RetryableRequest
\* ------------------------------------------------------------------------

\* a nil *RetryableRequest; Body is what is left to read of Request.Body
NilRequest == [nil |-> TRUE, body |-> NilBytes, runCount |-> 0, Body |-> <<>>,
               Header |-> NoHeaders]

\* NewRetryableRequest without the error of http.NewRequest
NewRetryableRequestAnyUrl(urlOk, reader) ==
    LET body == IF reader.nil THEN NilBytes ELSE Bytes(reader.bytes)
    IN  [request |-> [nil |-> FALSE, body |-> body, runCount |-> 0,
                      Body |-> body.bytes, Header |-> NoHeaders],
         err |-> NilErr]

\* NewRetryableRequest(method, url, reader): reader is drained into body and
\* the request reads from a reader over body; a malformed url is an error
NewRetryableRequest(urlOk, reader) ==
    LET body == IF reader.nil THEN NilBytes ELSE Bytes(reader.bytes)
    IN  IF ~urlOk
        THEN [request |-> NilRequest,
              err |-> GoError(<<"parse:", "invalid", "URL">>)]
        ELSE [request |-> [nil |-> FALSE, body |-> body, runCount |-> 0,
                           Body |-> body.bytes, Header |-> NoHeaders],
              err |-> NilErr]

\* Do as line 387 has it commented out: the request is sent as it is
DoNoRearm(r) == [r EXCEPT !.runCount = @ + 1]

\* RetryableRequest.Do up to the call of client.Do: a fresh reader over body
\* is installed on every run but the first, and runCount is advanced
Do(r) ==
    [r EXCEPT !.Body = IF r.runCount > 0 /\ ~r.body.nil THEN r.body.bytes ELSE @,
              !.runCount = @ + 1]

\* the request function literal of HttpRequest (lines 117-157)
BuildRequest(acc, cfg) ==
    LET enc == IF ~cfg.BodyRaw.nil THEN [bytes |-> cfg.BodyRaw, err |-> NilErr]
               ELSE IF acc = AcceptXml THEN XmlMarshal(cfg.BodyModel)
               ELSE JsonMarshal(cfg.BodyModel)
        form == StructToUrl(cfg.BodyModel)
    IN  IF cfg.BodyRaw.nil /\ cfg.BodyModel.nil
        THEN NewRetryableRequest(cfg.UrlOk, NilBytes)
        ELSE IF ~enc.err.nil
        THEN [request |-> NilRequest, err |-> enc.err]
        ELSE IF cfg.XWwwFormUrlEncoded = <<TRUE>>
        THEN IF ~form.err.nil
             THEN [request |-> NilRequest, err |-> form.err]
             ELSE NewRetryableRequest(cfg.UrlOk, form.bytes)
        ELSE NewRetryableRequest(cfg.UrlOk, enc.bytes)

\* the default headers (lines 166-172)
DefaultHeaders(acc, cfg) ==
    IF acc # AcceptJson THEN NoHeaders
    ELSE LET h == HeaderSet(NoHeaders, "Accept", "application/json")
         IN  IF ~cfg.BodyModel.nil
             THEN HeaderSet(h, "Content-Type", "application/json")
             ELSE h

\* the inner loop of lines 181-186: the values of one key are added in turn
RECURSIVE AddValues(_, _, _)
AddValues(h, key, values) ==
    IF values = <<>> THEN h
    ELSE AddValues(HeaderAdd(h, key, Head(values)), key, Tail(values))

\* the values of one key of the overlay added to what the header holds
OverruleAppend(h, key, values) == AddValues(h, key, values)

\* lines 180-186 for one key of the overlay: its old header is deleted and
\* its values are added
Overrule(h, key, values) == AddValues(HeaderDel(h, key), key, values)

\* the loop of lines 179-187 over the keys of the map m in the order the
\* range statement visits them
RECURSIVE OverruleAll(_, _, _)
OverruleAll(h, m, order) ==
    IF order = <<>> THEN h
    ELSE OverruleAll(Overrule(h, Head(order), m[Head(order)]), m, Tail(order))

\* the headers of the request (lines 166-191)
RequestHeaders(acc, cfg, order) ==
    IF cfg.NonDefaultHeaders.nil THEN DefaultHeaders(acc, cfg)
    ELSE OverruleAll(DefaultHeaders(acc, cfg), cfg.NonDefaultHeaders.map, order)

\* the orders in which a range statement may visit the keys S of a map
KeyOrders(S) ==
    {o \in [1..Cardinality(S) -> S] :
        \A i, j \in 1..Cardinality(S) : i # j => o[i] # o[j]}

\* the orders in which line 179 may visit the overlay of cfg
OverlayOrders(cfg) ==
    IF cfg.NonDefaultHeaders.nil THEN {<<>>}
    ELSE KeyOrders(DOMAIN cfg.NonDefaultHeaders.map)

\* ------------------------------------------------------------------------
\* doWithRetry, one piece per decision of the loop
\* ------------------------------------------------------------------------

\* _maxRetries (lines 371-374)
MaxRetriesOf(maxRetries) ==
    IF maxRetries = NilUint THEN defaultMaxRetries ELSE maxRetries[1]

\* the loop condition with its bound off by one
LoopGuardOffByOne(retry, max) == retry <= max + 1

\* the loop condition (line 378)
LoopGuard(retry, max) == retry <= max

\* a sleep before every send, the first included
SleepsBeforeAlways(retry) == TRUE

\* whether the iteration sleeps before it sends (line 379)
SleepsBefore(retry) == retry > 0

\* int(rand.Float64() * 1000) (line 382)
WaitMilliseconds(f) == (f[1] * 1000) \div f[2]

\* the backoff with the exponent off by one
BackoffOffByOne(retry, f) == Pow2(retry) * 1000 + WaitMilliseconds(f)

\* the duration slept before the send of index retry > 0 (lines 381-383)
Backoff(retry, f) == Pow2(retry - 1) * 1000 + WaitMilliseconds(f)

\* statusCode (lines 399-403)
StatusOf(response) == IF response.nil THEN 0 ELSE response.StatusCode

\* the test of line 411
IsHandshakeTimeout(err) ==
    ~err.nil /\ Contains(ToLower(err.msg), <<"tls", "handshake", "timeout">>)

\* the retry on a flagged status without the test of the budget
RetryOnStatusUnguarded(statusCode, retry, max) == HttpRetry(statusCode)

\* the retry on a flagged status (line 405)
RetryOnStatus(statusCode, retry, max) == HttpRetry(statusCode) /\ retry < max

\* no retry on a transport error
RetryOnErrorNever(err) == FALSE

\* a retry on every transport error
RetryOnErrorAny(err) == ~err.nil

\* the retry on a handshake timeout (lines 410-415)
RetryOnError(err) == IsHandshakeTimeout(err)

\* the error of lines 417-419
StatusError(err, statusCode) ==
    IF err.nil /\ (statusCode \div 100 = 4 \/ statusCode \div 100 = 5)
    THEN GoError(StatusMsgLower(statusCode))
    ELSE err

\* the carrier built on lines 421-431
LoopError(r, response, err) ==
    [NewError EXCEPT !.request = TRUE, !.body = r.body,
                     !.response = response, !.responseSet = TRUE,
                     !.message = err.msg]

\* what one iteration decides after the send (lines 399-433): to go round
\* again, or to return (response, e)
Verdict(r, retry, max, response, err) ==
    LET statusCode == StatusOf(response)
        err2 == StatusError(err, statusCode)
    IN  IF RetryOnStatus(statusCode, retry, max) \/ RetryOnError(err)
        THEN [again |-> TRUE, response |-> NilResponse, e |-> NilError]
        ELSE IF ~err2.nil
        THEN [again |-> FALSE, response |-> response,
              e |-> LoopError(r, response, err2)]
        ELSE [again |-> FALSE, response |-> response, e |-> NilError]

\* ------------------------------------------------------------------------
\* HttpRequest after doWithRetry has returned (lines 208-281)
\* ------------------------------------------------------------------------

\* the carrier without the error made of the status
CallErrorOfLoopOnly(r, response, e) ==
    IF e.nil THEN e
    ELSE [e EXCEPT !.request = TRUE, !.body = r.body,
                   !.response = response, !.responseSet = TRUE]

\* the carrier of lines 223-233
CallError(r, response, e) ==
    LET e1 == IF e.nil /\ (response.StatusCode < 200 \/ response.StatusCode > 299)
              THEN [NewError EXCEPT !.message = StatusMsgUpper(response.StatusCode)]
              ELSE e
    IN  IF e1.nil THEN e1
        ELSE [e1 EXCEPT !.request = TRUE, !.body = r.body,
                        !.response = response, !.responseSet = TRUE]

\* whether the error path decodes into the error model (line 235)
DecodesError(cfg) == cfg.ErrorModel

\* whether the success path decodes into the response model (line 254)
DecodesResponse(cfg) == cfg.ResponseModel

\* the extra context attached whatever the outcome of the Unmarshal
ErrorExtraAlways(decodeOk) == <<"response_message">>

\* the extra context of lines 245-247, by the outcome of the Unmarshal
ErrorExtra(decodeOk) == IF decodeOk THEN <<>> ELSE <<"response_message">>

\* the error of responseBodyToBytes (line 297), which line 258 returns
ReadError == [NewError EXCEPT !.message = <<"read", "error">>]

\* the error of a failed Unmarshal with nothing attached to it
DecodeErrorBare(r, response) ==
    [NewError EXCEPT !.message = <<"decode", "error">>]

\* the carrier of lines 266-275 for a failed Unmarshal into the response model
DecodeError(r, response) ==
    [NewError EXCEPT !.request = TRUE, !.body = r.body, !.response = response,
                     !.responseSet = TRUE, !.message = <<"decode", "error">>]

\* what json.Unmarshal or xml.Unmarshal (lines 239-243, 261-265) leaves in the
\* model it decodes into: filled when it succeeds; when it fails, unchanged
\* or written in part, as the error was found before or after the first
\* write (wrote)
Unmarshal(decodeOk, wrote) ==
    IF decodeOk THEN "filled" ELSE IF wrote THEN "partial" ELSE "unchanged"

\* lines 213-281: what HttpRequest returns for doWithRetry's (response, e);
\* readOk: reading the response body succeeds, decodeOk: the body decodes
\* into the model it is decoded into, wrote: a failing Unmarshal has written
\* into the model.  read counts the reads of the body, decoded names the
\* model an Unmarshal was run on, readErr and decodeErr tell that the read and
\* that the Unmarshal failed, responseModel and errorModel tell what the call
\* did to the models of the caller
PostProcess(r, cfg, response, e, readOk, decodeOk, wrote) ==
    LET e1 == IF response.nil THEN e ELSE CallError(r, response, e)
        base == [request |-> ~r.nil, response |-> response, e |-> e1,
                 read |-> 0, decoded |-> "none", readErr |-> FALSE,
                 decodeErr |-> FALSE, responseModel |-> "unchanged",
                 errorModel |-> "unchanged"]
    IN  IF response.nil THEN base
        ELSE IF ~e1.nil
        THEN IF ~DecodesError(cfg) THEN base
             ELSE IF ~readOk THEN [base EXCEPT !.read = 1, !.readErr = TRUE]
             ELSE [base EXCEPT !.read = 1, !.decoded = "error",
                               !.decodeErr = ~decodeOk,
                               !.errorModel = Unmarshal(decodeOk, wrote),
                               !.e.extra = ErrorExtra(decodeOk)]
        ELSE IF ~DecodesResponse(cfg) THEN base
        ELSE IF ~readOk
        THEN [base EXCEPT !.read = 1, !.readErr = TRUE, !.e = ReadError]
        ELSE IF decodeOk
        THEN [base EXCEPT !.read = 1, !.decoded = "response",
                          !.responseModel = Unmarshal(decodeOk, wrote)]
        ELSE [base EXCEPT !.read = 1, !.decoded = "response", !.decodeErr = TRUE,
                          !.responseModel = Unmarshal(decodeOk, wrote),
                          !.e = DecodeError(r, response)]

\* an assignment in place of the increment
IncrementAssign(v) == 1

\* service.requestCount++ (line 197), from the value loaded
Increment(v) == v + 1

\* ------------------------------------------------------------------------
\* Inputs
\* ------------------------------------------------------------------------

\* Service.accept, fixed by NewService
Accepts == {AcceptJson, AcceptXml, AcceptRaw}

\* RequestConfig.MaxRetries
MaxRetriesChoices == {NilUint} \cup {<<n>> : n \in 0..MaxOverride}

\* *RequestConfig.BodyRaw
RawBody == Bytes(<<1, 2>>)

\* the header overlays of the calls
Overlays ==
    {NilHeader,
     HeaderOf("Accept" :> <<"text/xml">>),
     HeaderOf("Accept" :> <<>>),
     HeaderOf("content-type" :> <<"text/plain", "text/csv">>),
     HeaderOf("X-Api-Key" :> <<"key">>),
     HeaderOf(("Accept" :> <<"text/xml">>) @@ ("X-Api-Key" :> <<"key">>)),
     HeaderOf(("accept" :> <<"text/csv">>) @@ ("Accept" :> <<"text/xml">>))}

\* RequestConfig values with their fields drawn from the sets given
ConfigSet(urls, models, raws, forms, responseModels, errorModels, headers, maxs) ==
    [UrlOk : urls, BodyModel : models, BodyRaw : raws,
     XWwwFormUrlEncoded : forms, ResponseModel : responseModels,
     ErrorModel : errorModels, NonDefaultHeaders : headers, MaxRetries : maxs]

\* calls that vary the retry budget and the body that is replayed
RetryConfigs ==
    ConfigSet({TRUE}, {NilModel}, {NilBytes, RawBody}, {<<>>}, {FALSE}, {FALSE},
              {NilHeader}, MaxRetriesChoices)

\* calls that vary what the request is built from; raw bytes with the form
\* flag and without a body model are left out: line 137 would hand a nil
\* model to utilities.StructToUrl, whose answer to it is not in this
\* repository
BuildConfigs ==
    {cfg \in ConfigSet(BOOLEAN, {NilModel, ModelPlain, ModelNoJson, ModelNoForm},
                       {NilBytes, RawBody}, {<<>>, <<FALSE>>, <<TRUE>>},
                       {FALSE}, {FALSE}, {NilHeader}, {<<0>>}) :
        ~(cfg.XWwwFormUrlEncoded = <<TRUE>> /\ cfg.BodyModel.nil /\ ~cfg.BodyRaw.nil)}

\* calls that vary the models the response is decoded into
DecodeConfigs ==
    ConfigSet({TRUE}, {NilModel}, {NilBytes}, {<<>>}, BOOLEAN, BOOLEAN,
              {NilHeader}, {<<0>>, <<1>>})

\* calls that vary the header overlay
HeaderConfigs ==
    ConfigSet({TRUE}, {NilModel, ModelPlain}, {NilBytes}, {<<>>}, {FALSE}, {FALSE},
              Overlays, {<<0>>})

\* the RequestConfig values of the calls
Configs == RetryConfigs \cup BuildConfigs \cup DecodeConfigs \cup HeaderConfigs

\* what client.Do returns: a response and no error, an error and no
\* response, or both when a redirect is refused
StatusesSeen == {101, 200, 301, 404, 500, 503}

TransportMessages == {MsgHandshakeGo, MsgHandshakeLower, MsgRefused, MsgTimeoutOnly}

Outcomes ==
    {[resp |-> TRUE, status |-> s, err |-> NilErr] : s \in StatusesSeen}
    \cup {[resp |-> FALSE, status |-> 0, err |-> GoError(m)] : m \in TransportMessages}
    \cup {[resp |-> TRUE, status |-> 302,
           err |-> GoError(<<"stopped", "after", "10", "redirects">>)]}

\* the retry budgets of the calls followed with ig.Debug() false and true
RunBudgets == {<<0>>, <<1>>}

\* the RequestConfig values of those calls
RunConfigs == {cfg \in Configs : cfg.MaxRetries \in RunBudgets}

\* the outcomes the transport answers those calls with
RunOutcomes ==
    {o \in Outcomes :
        \/ o.err.nil /\ o.status \in {200, 404, 503}
        \/ ~o.err.nil /\ o.err.msg \in {MsgHandshakeGo, MsgRefused}}

\* the values rand.Float64() takes in those calls
RunFloats == {<<2047, 2048>>}

\* the requests doWithRetry is called with directly: nil, or one with a body
RunRequests == {NilRequest, NewRetryableRequest(TRUE, RawBody).request}

\* ------------------------------------------------------------------------
\* State
\* ------------------------------------------------------------------------

VARIABLES
    requestCount,   \* Service.requestCount
    accept,         \* Service.accept
    pc,             \* per thread: where its HttpRequest call stands
    config,         \* per thread: the RequestConfig of the call
    request,        \* per thread: the *RetryableRequest
    retry,          \* per thread: retry of doWithRetry
    attempt,        \* per thread: response, err, statusCode of the last send
    result,         \* per thread: what doWithRetry returned
    returned,       \* per thread: what HttpRequest returned
    loaded,         \* per thread: the requestCount value read by line 197
    obs,            \* per thread: what the transport and the clock observed
    completed,      \* calls that reached the send phase and returned since the last reset
    parameters,     \* RequestConfig.Parameters of the config SetParameter works on
    setCalls,       \* the <<key, value>> of the SetParameter calls so far
    runs            \* a call run with ig.Debug() false and true: its inputs and results

vars == <<requestCount, accept, pc, config, request, retry, attempt, result,
          returned, loaded, obs, completed, parameters, setCalls, runs>>

\* the variables of the calls of HttpRequest
callVars == <<requestCount, accept, pc, config, request, retry, attempt, result,
              returned, loaded, obs, completed>>

\* the variables of the RequestConfig that SetParameter works on
paramVars == <<parameters, setCalls>>

NoConfig == [UrlOk |-> TRUE, BodyModel |-> NilModel, BodyRaw |-> NilBytes,
             XWwwFormUrlEncoded |-> <<>>, ResponseModel |-> FALSE,
             ErrorModel |-> FALSE, NonDefaultHeaders |-> NilHeader,
             MaxRetries |-> NilUint]

NoAttempt == [response |-> NilResponse, err |-> NilErr, statusCode |-> 0]

NoResult == [response |-> NilResponse, e |-> NilError]

NoReturn == [request |-> FALSE, response |-> NilResponse, e |-> NilError,
             read |-> 0, decoded |-> "none", readErr |-> FALSE,
             decodeErr |-> FALSE, responseModel |-> "unchanged",
             errorModel |-> "unchanged"]

\* sends, sleeps: transport invocations and sleeps of the call; lastSleep: the
\* duration of the last sleep; first, last: the bytes Request.Body held at the
\* first and at the last send; drained: the transport read Request.Body to
\* its end in every send so far; status, handshake, other: the sends so far that
\* ended in a flagged status without error, in a handshake timeout, in
\* anything else; responses: the sends so far that obtained a response;
\* headers: the headers of the request at the last send
NoObs == [sends |-> 0, sleeps |-> 0, lastSleep |-> 0, first |-> <<>>,
          last |-> <<>>, drained |-> TRUE, status |-> 0, handshake |-> 0,
          other |-> 0, responses |-> 0, headers |-> NoHeaders]

\* what a call did as seen from outside: the sends, the request bytes and
\* the headers of each send, the sleeps, the lines printed (the diagnostics
\* of ig.Debug() and the retry notice of line 380)
NoLog == [sends |-> 0, bodies |-> <<>>, headers |-> <<>>, sleeps |-> <<>>,
          printed |-> <<>>]

\* one run of a call before its first step. requestCount: the counter of
\* the Service; loaded: the value line 197 read; r: the *RetryableRequest;
\* index: retry of doWithRetry; response, e: what doWithRetry returned;
\* returned: what HttpRequest returned; otherLoaded: the value another
\* goroutine's line 197 read and has not yet written back; others: the
\* times another goroutine has advanced the counter
NoCall == [pc |-> "idle", requestCount |-> 0, loaded |-> 0, r |-> NilRequest,
           index |-> 0, response |-> NilResponse, e |-> NilError,
           returned |-> NoReturn, log |-> NoLog, otherLoaded |-> <<>>,
           others |-> 0]

\* no call is followed yet
NoRuns == [fn |-> "none",
           in |-> [cfg |-> NoConfig, order |-> <<>>, clientNil |-> FALSE,
                   r |-> NilRequest],
           quiet |-> NoCall, loud |-> NoCall]

Init ==
    /\ requestCount = 0
    /\ accept \in Accepts
    /\ pc = [t \in Threads |-> "idle"]
    /\ config = [t \in Threads |-> NoConfig]
    /\ request = [t \in Threads |-> NilRequest]
    /\ retry = [t \in Threads |-> 0]
    /\ attempt = [t \in Threads |-> NoAttempt]
    /\ result = [t \in Threads |-> NoResult]
    /\ returned = [t \in Threads |-> NoReturn]
    /\ loaded = [t \in Threads |-> 0]
    /\ obs = [t \in Threads |-> NoObs]
    /\ completed = 0
    /\ parameters = NilValues
    /\ setCalls = <<>>
    /\ runs = NoRuns

\* ------------------------------------------------------------------------
\* The steps of a call as functions of the state of its run, with the lines
\* the call prints; debug is what ig.Debug() returns
\* ------------------------------------------------------------------------

\* what a block under `if ig.Debug()` prints: its lines, or nothing
DebugPrint(debug, lines) == IF debug THEN lines ELSE <<>>

\* the run s after it printed the lines
Printed(s, lines) == [s EXCEPT !.log.printed = @ \o lines]

\* the request after a debug block that reads what is left of its body
TracedDrained(debug, r) == IF debug THEN [r EXCEPT !.Body = <<>>] ELSE r

\* the request after the debug block of lines 199-203, which prints it
Traced(debug, r) == r

\* what line 380 prints at the head of every iteration after the first; the
\* Printf is under `if retry > 0` only, so it does not depend on ig.Debug()
RetryNotice(index) ==
    IF SleepsBefore(index) THEN <<"StatusCode ..., starting retry">> ELSE <<>>

\* the diagnostics of lines 389-398 for what client.Do returned
SendDiagnostics(debug, o) ==
    DebugPrint(debug, (IF o.err.nil THEN <<>> ELSE <<"client.Do - error">>)
                      \o (IF o.resp THEN <<>> ELSE <<"client.Do - response is nil">>))

\* the closure of lines 117-157 reaches the debug block of lines 146-154:
\* there is a body, it was taken raw or marshalled without error, and the
\* form flag did not return first (lines 134-143); the URL is parsed only
\* afterwards, on line 156
ReachesBodyDiagnostics(acc, cfg) ==
    /\ cfg.XWwwFormUrlEncoded # <<TRUE>>
    /\ \/ ~cfg.BodyRaw.nil
       \/ /\ ~cfg.BodyModel.nil
          /\ IF acc = AcceptXml THEN XmlMarshal(cfg.BodyModel).err.nil
             ELSE JsonMarshal(cfg.BodyModel).err.nil

\* the diagnostics of HttpRequest up to line 195 (lines 104-115, 146-154,
\* 176-190); built: the closure returned a request
BuildDiagnostics(debug, acc, cfg, built) ==
    DebugPrint(debug,
        <<"FullUrl">>
        \o (IF cfg.ResponseModel THEN <<"ResponseModel">> ELSE <<>>)
        \o (IF cfg.ErrorModel THEN <<"ErrorModel">> ELSE <<>>)
        \o (IF ~ReachesBodyDiagnostics(acc, cfg) THEN <<>>
            ELSE IF ~cfg.BodyRaw.nil THEN <<"BodyRaw">>
            ELSE <<"BodyModel">>)
        \o (IF built /\ ~cfg.NonDefaultHeaders.nil
            THEN <<"NonDefaultHeaders">> ELSE <<>>))

\* the diagnostics of lines 199-203, after the counter was advanced
RequestDiagnostics(debug) == DebugPrint(debug, <<"Request">>)

\* the diagnostics of lines 357-366
GuardDiagnostics(debug, clientNil, r) ==
    DebugPrint(debug, (IF clientNil THEN <<"client is nil">> ELSE <<>>)
                      \o (IF r.nil THEN <<"request is nil">> ELSE <<>>))

\* the diagnostics of HttpRequest after doWithRetry (lines 208-221, 300-303)
PostDiagnostics(debug, post) ==
    DebugPrint(debug,
        <<"Response">>
        \o (IF post.response.nil THEN <<>> ELSE <<"StatusCode">>)
        \o (IF post.read = 1 /\ ~post.readErr THEN <<"ResponseBody">> ELSE <<>>))

\* HttpRequest up to line 195 on a Service in content mode acc: the request
\* is built and its headers are set (the overlay visited in the given
\* order), or the call returns the build error (lines 158-161)
BuildStep(debug, acc, cfg, order, s) ==
    LET b == BuildRequest(acc, cfg)
        s1 == Printed(s, BuildDiagnostics(debug, acc, cfg, b.err.nil))
    IN  IF ~b.err.nil
        THEN [s1 EXCEPT !.returned = [NoReturn EXCEPT
                                !.e = [NewError EXCEPT !.message = b.err.msg]],
                        !.pc = "returned"]
        ELSE [s1 EXCEPT !.r = [b.request EXCEPT
                                !.Header = RequestHeaders(acc, cfg, order)],
                        !.pc = "count"]

\* line 197, the read of service.requestCount
LoadCountStep(s) == [s EXCEPT !.loaded = s.requestCount, !.pc = "store"]

\* line 197, the write of service.requestCount, and lines 199-206: the
\* request is printed and doWithRetry is called
StoreCountStep(debug, s) ==
    Printed([s EXCEPT !.requestCount = Increment(s.loaded),
                      !.r = Traced(debug, @),
                      !.pc = "enter"],
            RequestDiagnostics(debug))

\* lines 355-376 without the test of lines 356-368
EnterStepUnguarded(debug, clientNil, s) == [s EXCEPT !.index = 0, !.pc = "loop"]

\* lines 355-376: doWithRetry returns nil, nil for a nil client or a nil
\* request, and sets retry to 0 otherwise
EnterStep(debug, clientNil, s) ==
    IF clientNil \/ s.r.nil
    THEN Printed([s EXCEPT !.response = NilResponse, !.e = NilError,
                           !.pc = "left"],
                 GuardDiagnostics(debug, clientNil, s.r))
    ELSE [s EXCEPT !.index = 0, !.pc = "loop"]

\* lines 378-384 with the budget max: the loop condition, and before a retry
\* the notice of line 380 and the sleep; when the condition fails
\* doWithRetry returns nil, nil (line 437); f is the value of rand.Float64()
LoopHeadStep(max, f, s) ==
    IF ~LoopGuard(s.index, max)
    THEN [s EXCEPT !.response = NilResponse, !.e = NilError, !.pc = "left"]
    ELSE [s EXCEPT !.log.printed = @ \o RetryNotice(s.index),
                   !.log.sleeps = IF SleepsBefore(s.index)
                                  THEN Append(@, Backoff(s.index, f))
                                  ELSE @,
                   !.pc = "send"]

\* lines 386-433 with the budget max: the request is sent
\* (RetryableRequest.Do), the transport answers with outcome o after reading
\* the body (drain) or not, and the iteration ends in a retry or in the
\* return of doWithRetry
SendStep(debug, max, o, drain, s) ==
    LET r1 == Do(s.r)
        n == s.log.sends + 1
        response == IF o.resp THEN Response(o.status, n) ELSE NilResponse
        v == Verdict(r1, s.index, max, response, o.err)
        s1 == [s EXCEPT !.r = [r1 EXCEPT !.Body = IF drain THEN <<>> ELSE @],
                        !.log.sends = n,
                        !.log.bodies = Append(@, r1.Body),
                        !.log.headers = Append(@, r1.Header),
                        !.log.printed = @ \o SendDiagnostics(debug, o)]
    IN  IF v.again
        THEN [s1 EXCEPT !.index = @ + 1, !.pc = "loop"]
        ELSE [s1 EXCEPT !.response = v.response, !.e = v.e, !.pc = "left"]

\* lines 208-281: HttpRequest returns
PostStep(debug, cfg, readOk, decodeOk, wrote, s) ==
    LET post == PostProcess(s.r, cfg, s.response, s.e, readOk, decodeOk, wrote)
    IN  Printed([s EXCEPT !.returned = post, !.pc = "returned"],
                PostDiagnostics(debug, post))

\* line 197 in the HttpRequest call of another goroutine, the read
OtherLoadStep(s) == [s EXCEPT !.otherLoaded = <<s.requestCount>>]

\* line 197 in the HttpRequest call of another goroutine, the write
OtherStoreStep(s) ==
    [s EXCEPT !.requestCount = Increment(s.otherLoaded[1]),
              !.otherLoaded = <<>>,
              !.others = @ + 1]

\* ResetRequestCount (lines 312-314) called by another goroutine
ResetStep(s) == [s EXCEPT !.requestCount = 0]

\* ------------------------------------------------------------------------
\* Steps of a call
\* ------------------------------------------------------------------------

\* HttpRequest up to line 195: the request is built and its headers are set
\* (the overlay visited in the given order), or the call returns the build
\* error
Build(t, cfg, order) ==
    /\ pc[t] = "idle"
    /\ completed < MaxCalls
    /\ config' = [config EXCEPT ![t] = cfg]
    /\ LET b == BuildRequest(accept, cfg)
       IN  IF ~b.err.nil
           THEN /\ returned' = [returned EXCEPT ![t] =
                        [NoReturn EXCEPT !.e = [NewError EXCEPT !.message = b.err.msg]]]
                /\ pc' = [pc EXCEPT ![t] = "returned"]
                /\ UNCHANGED request
           ELSE /\ request' = [request EXCEPT ![t] =
                        [b.request EXCEPT !.Header = RequestHeaders(accept, cfg, order)]]
                /\ pc' = [pc EXCEPT ![t] = "count"]
                /\ UNCHANGED returned
    /\ UNCHANGED paramVars
    /\ UNCHANGED runs
    /\ UNCHANGED <<requestCount, accept, retry, attempt, result, loaded, obs, completed>>

\* line 197, the read of service.requestCount
LoadCount(t) ==
    /\ pc[t] = "count"
    /\ loaded' = [loaded EXCEPT ![t] = requestCount]
    /\ pc' = [pc EXCEPT ![t] = "store"]
    /\ UNCHANGED paramVars
    /\ UNCHANGED runs
    /\ UNCHANGED <<requestCount, accept, config, request, retry, attempt, result,
                   returned, obs, completed>>

\* line 197, the write of service.requestCount; doWithRetry is entered
\* (lines 206, 356-376)
StoreCount(t) ==
    /\ pc[t] = "store"
    /\ requestCount' = Increment(loaded[t])
    /\ retry' = [retry EXCEPT ![t] = 0]
    /\ pc' = [pc EXCEPT ![t] = "loop"]
    /\ UNCHANGED paramVars
    /\ UNCHANGED runs
    /\ UNCHANGED <<accept, config, request, attempt, result, returned, loaded,
                   obs, completed>>

\* lines 378-384: the loop condition and the sleep before a retry; when the
\* condition fails doWithRetry returns nil, nil (line 437)
LoopHead(t, f) ==
    /\ pc[t] = "loop"
    /\ IF LoopGuard(retry[t], MaxRetriesOf(config[t].MaxRetries))
       THEN /\ obs' = [obs EXCEPT ![t] =
                    IF SleepsBefore(retry[t])
                    THEN [@ EXCEPT !.sleeps = @ + 1,
                                   !.lastSleep = Backoff(retry[t], f)]
                    ELSE @]
            /\ pc' = [pc EXCEPT ![t] = "send"]
            /\ UNCHANGED result
       ELSE /\ result' = [result EXCEPT ![t] = NoResult]
            /\ pc' = [pc EXCEPT ![t] = "post"]
            /\ UNCHANGED obs
    /\ UNCHANGED paramVars
    /\ UNCHANGED runs
    /\ UNCHANGED <<requestCount, accept, config, request, retry, attempt,
                   returned, loaded, completed>>

\* how the outcome o of a send adds to the counts of obs
Counted(ob, o) ==
    IF o.err.nil /\ HttpRetry(o.status) THEN [ob EXCEPT !.status = @ + 1]
    ELSE IF IsHandshakeTimeout(o.err) THEN [ob EXCEPT !.handshake = @ + 1]
    ELSE [ob EXCEPT !.other = @ + 1]

\* lines 386-433: the request is sent (RetryableRequest.Do), the transport
\* answers with outcome o after reading the body (drain) or not, and the
\* iteration ends in a retry or in the return of doWithRetry
Send(t, o, drain) ==
    /\ pc[t] = "send"
    /\ LET r == Do(request[t])
           n == obs[t].sends + 1
           response == IF o.resp THEN Response(o.status, n) ELSE NilResponse
           v == Verdict(r, retry[t], MaxRetriesOf(config[t].MaxRetries),
                        response, o.err)
       IN  /\ request' = [request EXCEPT ![t] =
                   [r EXCEPT !.Body = IF drain THEN <<>> ELSE @]]
           /\ attempt' = [attempt EXCEPT ![t] =
                   [response |-> response, err |-> o.err,
                    statusCode |-> StatusOf(response)]]
           /\ obs' = [obs EXCEPT ![t] =
                   [Counted(@, o) EXCEPT !.sends = n,
                                         !.first = IF n = 1 THEN r.Body ELSE @,
                                         !.last = r.Body,
                                         !.headers = r.Header,
                                         !.responses = IF o.resp THEN @ + 1 ELSE @,
                                         !.drained = @ /\ (drain \/ r.Body = <<>>)]]
           /\ IF v.again
              THEN /\ retry' = [retry EXCEPT ![t] = @ + 1]
                   /\ pc' = [pc EXCEPT ![t] = "loop"]
                   /\ UNCHANGED result
              ELSE /\ result' = [result EXCEPT ![t] =
                           [response |-> v.response, e |-> v.e]]
                   /\ pc' = [pc EXCEPT ![t] = "post"]
                   /\ UNCHANGED retry
    /\ UNCHANGED paramVars
    /\ UNCHANGED runs
    /\ UNCHANGED <<requestCount, accept, config, returned, loaded, completed>>

\* lines 208-281: HttpRequest returns
Post(t, readOk, decodeOk, wrote) ==
    /\ pc[t] = "post"
    /\ returned' = [returned EXCEPT ![t] =
            PostProcess(request[t], config[t], result[t].response, result[t].e,
                        readOk, decodeOk, wrote)]
    /\ completed' = completed + 1
    /\ pc' = [pc EXCEPT ![t] = "returned"]
    /\ UNCHANGED paramVars
    /\ UNCHANGED runs
    /\ UNCHANGED <<requestCount, accept, config, request, retry, attempt, result,
                   loaded, obs>>

\* the caller drops what the call returned; the thread may call again
Discard(t) ==
    /\ pc[t] = "returned"
    /\ pc' = [pc EXCEPT ![t] = "idle"]
    /\ config' = [config EXCEPT ![t] = NoConfig]
    /\ request' = [request EXCEPT ![t] = NilRequest]
    /\ retry' = [retry EXCEPT ![t] = 0]
    /\ attempt' = [attempt EXCEPT ![t] = NoAttempt]
    /\ result' = [result EXCEPT ![t] = NoResult]
    /\ returned' = [returned EXCEPT ![t] = NoReturn]
    /\ loaded' = [loaded EXCEPT ![t] = 0]
    /\ obs' = [obs EXCEPT ![t] = NoObs]
    /\ UNCHANGED paramVars
    /\ UNCHANGED runs
    /\ UNCHANGED <<requestCount, accept, completed>>

\* ResetRequestCount (lines 312-314)
ResetRequestCount ==
    /\ requestCount' = 0
    /\ completed' = 0
    /\ UNCHANGED paramVars
    /\ UNCHANGED runs
    /\ UNCHANGED <<accept, pc, config, request, retry, attempt, result, returned,
                   loaded, obs>>

\* RequestCount() (lines 308-310)
RequestCount == requestCount

\* SetParameter(key, value) (lines 93-99)
SetParameter(key, value) ==
    /\ Len(setCalls) < MaxSets
    /\ parameters' = WithParameter(parameters, key, value)
    /\ setCalls' = Append(setCalls, <<key, value>>)
    /\ UNCHANGED runs
    /\ UNCHANGED callVars

\* the run of the call with ig.Debug() false and the run with ig.Debug()
\* true stand at the same step
Both(step) == runs.quiet.pc = step /\ runs.loud.pc = step

\* the two runs have not returned to their caller
InFlight ==
    /\ runs.fn # "none"
    /\ \A s \in {runs.quiet, runs.loud} :
            /\ s.pc # "returned"
            /\ ~(runs.fn = "doWithRetry" /\ s.pc = "left")

\* the two runs move on, each by its own step
Twin(q, l) ==
    /\ runs' = [runs EXCEPT !.quiet = q, !.loud = l]
    /\ UNCHANGED paramVars
    /\ UNCHANGED callVars

\* HttpRequest(cfg) is called on two Services in the same state, one run
\* with ig.Debug() false and one with ig.Debug() true, and both take the
\* step of lines 101-195
TwinBuild(cfg, order) ==
    /\ runs = NoRuns
    /\ runs' = [fn |-> "HttpRequest",
                in |-> [cfg |-> cfg, order |-> order, clientNil |-> FALSE,
                        r |-> NilRequest],
                quiet |-> BuildStep(FALSE, accept, cfg, order, NoCall),
                loud |-> BuildStep(TRUE, accept, cfg, order, NoCall)]
    /\ UNCHANGED paramVars
    /\ UNCHANGED callVars

\* doWithRetry(client, r, maxRetries) is called directly, once with
\* ig.Debug() false and once with ig.Debug() true; clientNil: client is nil
TwinCall(clientNil, r, maxRetries) ==
    /\ runs = NoRuns
    /\ runs' = [fn |-> "doWithRetry",
                in |-> [cfg |-> [NoConfig EXCEPT !.MaxRetries = maxRetries],
                        order |-> <<>>, clientNil |-> clientNil, r |-> r],
                quiet |-> [NoCall EXCEPT !.r = r, !.pc = "enter"],
                loud |-> [NoCall EXCEPT !.r = r, !.pc = "enter"]]
    /\ UNCHANGED paramVars
    /\ UNCHANGED callVars

\* both runs read the counter (line 197)
TwinLoadCount ==
    /\ Both("count")
    /\ Twin(LoadCountStep(runs.quiet), LoadCountStep(runs.loud))

\* both runs write the counter (line 197) and call doWithRetry (line 206)
TwinStoreCount ==
    /\ Both("store")
    /\ Twin(StoreCountStep(FALSE, runs.quiet), StoreCountStep(TRUE, runs.loud))

\* both runs enter doWithRetry (lines 355-376)
TwinEnter ==
    /\ Both("enter")
    /\ Twin(EnterStep(FALSE, runs.in.clientNil, runs.quiet),
            EnterStep(TRUE, runs.in.clientNil, runs.loud))

\* both runs test the loop condition and sleep before a retry, drawing the
\* same rand.Float64() (lines 378-384)
TwinLoopHead(f) ==
    /\ Both("loop")
    /\ LET max == MaxRetriesOf(runs.in.cfg.MaxRetries)
       IN  Twin(LoopHeadStep(max, f, runs.quiet), LoopHeadStep(max, f, runs.loud))

\* both runs send and are answered alike by the transport (lines 386-433)
TwinSend(o, drain) ==
    /\ Both("send")
    /\ LET max == MaxRetriesOf(runs.in.cfg.MaxRetries)
       IN  Twin(SendStep(FALSE, max, o, drain, runs.quiet),
                SendStep(TRUE, max, o, drain, runs.loud))

\* both runs of HttpRequest return, the body read and the decoding ending
\* alike (lines 208-281)
TwinPost(readOk, decodeOk, wrote) ==
    /\ runs.fn = "HttpRequest"
    /\ Both("left")
    /\ Twin(PostStep(FALSE, runs.in.cfg, readOk, decodeOk, wrote, runs.quiet),
            PostStep(TRUE, runs.in.cfg, readOk, decodeOk, wrote, runs.loud))

\* while the runs are between two of their steps, another goroutine's
\* HttpRequest call on the same Service reads the counter (line 197)
TwinOtherLoad ==
    /\ InFlight
    /\ \A s \in {runs.quiet, runs.loud} : s.otherLoaded = <<>> /\ s.others < MaxOthers
    /\ Twin(OtherLoadStep(runs.quiet), OtherLoadStep(runs.loud))

\* the other goroutine's call writes the counter (line 197)
TwinOtherStore ==
    /\ InFlight
    /\ \A s \in {runs.quiet, runs.loud} : s.otherLoaded # <<>>
    /\ Twin(OtherStoreStep(runs.quiet), OtherStoreStep(runs.loud))

\* while the runs are between two of their steps, another goroutine calls
\* ResetRequestCount on the Service
TwinReset ==
    /\ InFlight
    /\ \E s \in {runs.quiet, runs.loud} : s.requestCount # 0
    /\ Twin(ResetStep(runs.quiet), ResetStep(runs.loud))

\* ------------------------------------------------------------------------
\* Specifications
\* ------------------------------------------------------------------------

\* the thread of the sequential specification
Caller == "t1"

\* no call is in flight
Quiet == \A t \in Threads : pc[t] \in {"idle", "returned"}

CallStep(t) ==
    \/ \E cfg \in Configs : \E order \in OverlayOrders(cfg) : Build(t, cfg, order)
    \/ LoadCount(t)
    \/ StoreCount(t)
    \/ \E f \in RandFloats : LoopHead(t, f)
    \/ \E o \in Outcomes, drain \in BOOLEAN : Send(t, o, drain)
    \/ \E readOk \in BOOLEAN, decodeOk \in BOOLEAN, wrote \in BOOLEAN :
            Post(t, readOk, decodeOk, wrote)
    \/ Discard(t)

\* calls and resets one after the other
Next ==
    \/ CallStep(Caller)
    \/ (Quiet /\ ResetRequestCount)

Spec == Init /\ [][Next]_vars

\* the calls of the concurrent specification: no body, no models
ConcConfigs ==
    ConfigSet({TRUE}, {NilModel}, {NilBytes}, {<<>>}, {FALSE}, {FALSE},
              {NilHeader}, {<<0>>, <<1>>})

ConcOutcomes == {o \in Outcomes : o.err.nil /\ o.status \in {200, 503}}

ConcStep(t) ==
    \/ \E cfg \in ConcConfigs : Build(t, cfg, <<>>)
    \/ LoadCount(t)
    \/ StoreCount(t)
    \/ LoopHead(t, <<0, 1>>)
    \/ \E o \in ConcOutcomes : Send(t, o, TRUE)
    \/ Post(t, TRUE, TRUE, FALSE)
    \/ Discard(t)

\* calls of several threads, their steps interleaved, and no reset
NextConc == \E t \in Threads : ConcStep(t)

SpecConc == Init /\ [][NextConc]_vars

\* a RequestConfig before any call of HttpRequest
InitParams ==
    /\ requestCount = 0
    /\ accept = AcceptJson
    /\ pc = [t \in Threads |-> "idle"]
    /\ config = [t \in Threads |-> NoConfig]
    /\ request = [t \in Threads |-> NilRequest]
    /\ retry = [t \in Threads |-> 0]
    /\ attempt = [t \in Threads |-> NoAttempt]
    /\ result = [t \in Threads |-> NoResult]
    /\ returned = [t \in Threads |-> NoReturn]
    /\ loaded = [t \in Threads |-> 0]
    /\ obs = [t \in Threads |-> NoObs]
    /\ completed = 0
    /\ parameters \in ParamInits
    /\ setCalls = <<>>
    /\ runs = NoRuns

\* SetParameter calls one after the other
NextParams == \E key \in ParamKeys, value \in ParamValues : SetParameter(key, value)

SpecParams == InitParams /\ [][NextParams]_vars

\* one call of HttpRequest or of doWithRetry followed step by step with
\* ig.Debug() false and with ig.Debug() true, other goroutines advancing and
\* resetting the counter in between
NextRuns ==
    \/ \E cfg \in RunConfigs : \E order \in OverlayOrders(cfg) : TwinBuild(cfg, order)
    \/ \E clientNil \in BOOLEAN, r \in RunRequests, maxRetries \in MaxRetriesChoices :
            TwinCall(clientNil, r, maxRetries)
    \/ TwinLoadCount
    \/ TwinStoreCount
    \/ TwinEnter
    \/ \E f \in RunFloats : TwinLoopHead(f)
    \/ \E o \in RunOutcomes, drain \in BOOLEAN : TwinSend(o, drain)
    \/ \E readOk \in BOOLEAN, decodeOk \in BOOLEAN, wrote \in BOOLEAN :
            TwinPost(readOk, decodeOk, wrote)
    \/ TwinOtherLoad
    \/ TwinOtherStore
    \/ TwinReset

SpecRuns == Init /\ [][NextRuns]_vars

\* ------------------------------------------------------------------------
\* Properties
\* ------------------------------------------------------------------------

\* _maxRetries of the call of thread t
Budget(t) == MaxRetriesOf(config[t].MaxRetries)

\* thread t is inside doWithRetry or past it: a call that returned the
\* error of the build (line 160) never reached line 206 and holds no request
InCall(t) ==
    \/ pc[t] \in {"loop", "send", "post"}
    \/ pc[t] = "returned" /\ ~request[t].nil

\* C1: whatever the outcomes of the sends, a call with maxRetries = N (the
\* override, or 5) invokes the transport at most N + 1 times.
C1_AtMostBudgetPlusOneSends ==
    \A t \in Threads : obs[t].sends <= Budget(t) + 1

\* a call without override has made its sixth send after a mix of flagged
\* statuses and handshake timeouts
C1_Witness ==
    \E t \in Threads :
        /\ pc[t] = "post"
        /\ config[t].MaxRetries = NilUint
        /\ obs[t].sends = 6
        /\ obs[t].status > 0
        /\ obs[t].handshake > 0

\* C2: when every send ends in a flagged status without transport error,
\* doWithRetry returns after exactly N + 1 sends, and it returns the response
\* of the last send with a non-nil error.
C2_ExhaustedStatusReturnsLastResponse ==
    \A t \in Threads :
        (pc[t] = "post" /\ obs[t].sends > 0 /\ obs[t].status = obs[t].sends)
        => /\ obs[t].sends = Budget(t) + 1
           /\ ~result[t].response.nil
           /\ result[t].response = attempt[t].response
           /\ result[t].response.att = obs[t].sends
           /\ HttpRetry(result[t].response.StatusCode)
           /\ ~result[t].e.nil
           /\ result[t].e.response = result[t].response

\* six sends of a call without override all ended in 500 or 503
C2_Witness ==
    \E t \in Threads :
        /\ pc[t] = "post"
        /\ config[t].MaxRetries = NilUint
        /\ obs[t].sends = 6
        /\ obs[t].status = 6

\* one send of a call with maxRetries = 0 ended in 500
C2_WitnessZero ==
    \E t \in Threads :
        /\ pc[t] = "post"
        /\ config[t].MaxRetries = <<0>>
        /\ obs[t].sends = 1
        /\ attempt[t].statusCode = 500

\* C3: when every send of a call ends in a handshake timeout, HttpRequest
\* returns a non-nil error that carries the request; doWithRetry never leaves
\* its loop by the fall-through of line 437, and no call that reached the
\* send phase returns a nil response together with a nil error.
C3_HandshakeExhaustionReturnsError ==
    \A t \in Threads :
        /\ (pc[t] = "returned" /\ obs[t].sends > 0
                /\ obs[t].handshake = obs[t].sends)
           => (~returned[t].e.nil /\ returned[t].e.request)
        /\ (pc[t] = "returned" /\ obs[t].sends > 0)
           => ~(returned[t].response.nil /\ returned[t].e.nil)
        /\ pc[t] = "post" => retry[t] <= Budget(t)

\* C4: a handshake timeout without response at send index i < maxRetries
\* advances retry by one and leads back to the head of the loop, where the
\* iteration of index i + 1 sleeps and then sends; retry counts the retried
\* sends of both kinds, so they share the one budget.
C4_HandshakeTimeoutRetriesOnSameBudget ==
    /\ [][\A t \in Threads :
            /\ (/\ pc[t] = "send"
                /\ pc'[t] # "send"
                /\ attempt'[t].response.nil
                /\ Contains(ToLower(attempt'[t].err.msg),
                            <<"tls", "handshake", "timeout">>)
                /\ retry[t] < Budget(t))
               => (pc'[t] = "loop" /\ retry'[t] = retry[t] + 1)
            /\ (/\ pc[t] = "loop"
                /\ pc'[t] # "loop"
                /\ retry[t] >= 1
                /\ retry[t] <= Budget(t))
               => (/\ pc'[t] = "send"
                   /\ obs'[t].sleeps = obs[t].sleeps + 1
                   /\ obs'[t].lastSleep >= 1000)
            /\ (pc[t] = "send" /\ pc'[t] # "send")
               => obs'[t].sends = obs[t].sends + 1]_vars
    /\ [](\A t \in Threads :
            pc[t] \in {"loop", "send"}
            => /\ retry[t] = obs[t].status + obs[t].handshake
               /\ obs[t].other = 0
               /\ (pc[t] = "send" => retry[t] <= Budget(t)))

\* a send is about to follow a sleep, after a handshake timeout that came
\* after a retried status
C4_Witness ==
    \E t \in Threads :
        /\ pc[t] = "send"
        /\ obs[t].sends = 2
        /\ obs[t].sleeps = 2
        /\ obs[t].status = 1
        /\ obs[t].handshake = 1
        /\ attempt[t].response.nil
        /\ attempt[t].err.msg = MsgHandshakeGo

\* the error doWithRetry returns for the outcome of its last send
ExpectedLoopMessage(a) ==
    IF ~a.err.nil THEN a.err.msg
    ELSE IF a.statusCode \in 400..599
    THEN <<"server", "returned", "statuscode", ToString(a.statusCode)>>
    ELSE <<>>

\* the last send of thread t ended in an outcome that is not retryable
LastNotRetryable(t) ==
    /\ obs[t].sends > 0
    /\ attempt[t].statusCode \notin {500, 503}
    /\ ~(~attempt[t].err.nil
         /\ Contains(ToLower(attempt[t].err.msg), <<"tls", "handshake", "timeout">>))

\* C5: doWithRetry returns at the first send whose outcome is not retryable:
\* no send follows such an outcome, every send before it was retried, and the
\* response and the error returned are those of that send; with such an
\* outcome at the first send there is one send and no sleep.
C5_ReturnsAtFirstNonRetryable ==
    \A t \in Threads :
        /\ (InCall(t) /\ LastNotRetryable(t))
           => /\ pc[t] \in {"post", "returned"}
              /\ obs[t].sends = obs[t].status + obs[t].handshake + 1
              /\ result[t].response = attempt[t].response
              /\ result[t].e.nil = (ExpectedLoopMessage(attempt[t]) = <<>>)
              /\ result[t].e.message = ExpectedLoopMessage(attempt[t])
              /\ (obs[t].status + obs[t].handshake = 0
                    => (obs[t].sends = 1 /\ obs[t].sleeps = 0))
        /\ obs[t].other <= 1

\* the third send of a call ended in 404
C5_Witness ==
    \E t \in Threads :
        /\ pc[t] = "post"
        /\ obs[t].sends = 3
        /\ attempt[t].statusCode = 404
        /\ attempt[t].err.nil

\* the first send of a call failed with a refused connection
C5_WitnessFirst ==
    \E t \in Threads :
        /\ pc[t] = "post"
        /\ obs[t].sends = 1
        /\ attempt[t].err.msg = MsgRefused

\* C6: a sleep happens before every send but the first and at no other time:
\* the sleeps are the sends minus one once a send was made (one more while
\* the next send is pending); and after k flagged statuses a 2xx answer ends
\* the call with k + 1 sends, k sleeps and a nil error.
C6_SleepsAreSendsMinusOne ==
    \A t \in Threads :
        /\ pc[t] = "send" => obs[t].sleeps = obs[t].sends
        /\ (pc[t] # "send" /\ obs[t].sends > 0)
           => obs[t].sleeps = obs[t].sends - 1
        /\ obs[t].sends = 0 => obs[t].sleeps = 0
        /\ (/\ pc[t] = "post"
            /\ obs[t].sends > 0
            /\ attempt[t].err.nil
            /\ attempt[t].statusCode \in 200..299)
           => /\ result[t].e.nil
              /\ result[t].response = attempt[t].response
              /\ (obs[t].status = obs[t].sends - 1
                    => obs[t].sleeps = obs[t].status)

\* 503 twice, then 200
C6_Witness ==
    \E t \in Threads :
        /\ pc[t] = "post"
        /\ obs[t].status = 2
        /\ obs[t].sends = 3
        /\ obs[t].sleeps = 2
        /\ attempt[t].statusCode = 200
        /\ result[t].e.nil

\* C7: from the second send on, Request.Body holds at every send the bytes it
\* held at the first send, which are the bytes captured at build time, also
\* when the transport read the body to its end in every send before.
C7_ReplayFidelity ==
    \A t \in Threads :
        (obs[t].sends >= 1 /\ ~request[t].body.nil)
        => /\ obs[t].first = request[t].body.bytes
           /\ obs[t].last = obs[t].first

\* the third send of a request with a body of two bytes, after the transport
\* read the body to its end every time
C7_Witness ==
    \E t \in Threads :
        /\ obs[t].sends = 3
        /\ obs[t].drained
        /\ request[t].Body = <<>>
        /\ Len(obs[t].first) = 2
        /\ obs[t].last = obs[t].first

\* the base delays of the sleeps before the sends of index 1 to 5
BaseDelay == <<1000, 2000, 4000, 8000, 16000>>

\* C8: the sleep before the send of index i >= 1 lasts 2^(i-1) seconds plus
\* 0 to 999 milliseconds (bases of 1, 2, 4, 8, 16 seconds for i = 1..5, each
\* the double of the one before), and nothing is slept before the send of
\* index 0.
C8_BackoffDoubles ==
    \A t \in Threads :
        pc[t] = "send"
        => IF retry[t] = 0
           THEN obs[t].sleeps = 0 /\ obs[t].lastSleep = 0
           ELSE /\ retry[t] \in 1..Len(BaseDelay)
                /\ obs[t].lastSleep >= BaseDelay[retry[t]]
                /\ obs[t].lastSleep < BaseDelay[retry[t]] + 1000
                /\ (retry[t] > 1
                      => BaseDelay[retry[t]] = 2 * BaseDelay[retry[t] - 1])

\* the sleep before the send of index 5 took 16.999 seconds
C8_Witness ==
    \E t \in Threads :
        /\ pc[t] = "send"
        /\ retry[t] = 5
        /\ obs[t].lastSleep = 16999

\* C9: with calls and resets one after the other, RequestCount() is the
\* number of calls that reached the send phase since the last reset, whatever
\* their sends and outcomes.
C9_CountIsCallsSinceReset ==
    Quiet => RequestCount = completed

\* the second call since the last reset has returned after three sends
C9_Witness ==
    /\ pc[Caller] = "returned"
    /\ obs[Caller].sends = 3
    /\ completed = 2
    /\ RequestCount = 2

\* C10: with concurrent calls and no reset, once all calls have returned
\* RequestCount() has grown by the number of calls that reached the send
\* phase.
C10_NoLostIncrement ==
    (\A t \in Threads : pc[t] \in {"idle", "returned"})
    => requestCount = completed

\* the call of thread t has returned after at least one send
Returned(t) == pc[t] = "returned" /\ obs[t].sends > 0

\* the last send of thread t obtained a response
LastHasResponse(t) == ~attempt[t].response.nil

\* C11: a call whose last send obtained a response with a status outside
\* 200..299 (1xx and 3xx included) returns a non-nil error; a call whose last
\* send had no transport error and a status in 200..299, with no response
\* model supplied, returns a nil error together with that response.
C11_NonSuccessStatusIsError ==
    \A t \in Threads :
        Returned(t) =>
            /\ (LastHasResponse(t) /\ attempt[t].statusCode \notin 200..299
                    => ~returned[t].e.nil)
            /\ (LastHasResponse(t) /\ attempt[t].err.nil
                 /\ attempt[t].statusCode \in 200..299
                 /\ ~config[t].ResponseModel
                    => /\ returned[t].e.nil
                       /\ returned[t].response = attempt[t].response)

\* a call has returned the error made of status 101, which the transport
\* delivered without error
C11_Witness ==
    \E t \in Threads :
        /\ Returned(t)
        /\ attempt[t].statusCode = 101
        /\ attempt[t].err.nil
        /\ returned[t].e.message = StatusMsgUpper(101)
        /\ returned[t].response.StatusCode = 101

\* the call of thread t decoded the body of a success response into the
\* response model and the decoding failed
ResponseDecodeFailed(t) ==
    /\ Returned(t)
    /\ returned[t].decoded = "response"
    /\ returned[t].decodeErr

\* C12: when the response has a status in 200..299, a response model is
\* supplied and the body does not decode into it, the call returns a non-nil
\* error with the request and the response attached, together with the
\* request and that response; the step that finds the failure sends nothing
\* and no send of the call follows it.
C12_DecodeFailureIsError ==
    /\ [](\A t \in Threads :
            ResponseDecodeFailed(t)
            => /\ attempt[t].statusCode \in 200..299
               /\ config[t].ResponseModel
               /\ ~returned[t].e.nil
               /\ returned[t].e.request
               /\ returned[t].e.responseSet
               /\ returned[t].e.response = attempt[t].response
               /\ returned[t].request
               /\ returned[t].response = attempt[t].response
               /\ returned[t].response.att = obs[t].sends)
    /\ [][\A t \in Threads :
            /\ (pc[t] = "post" /\ pc'[t] # "post") => obs'[t] = obs[t]
            /\ ResponseDecodeFailed(t)
               => (obs'[t].sends = obs[t].sends \/ pc'[t] = "idle")]_vars

\* a call with a response model has returned the decode error after a 503
\* that was retried and a 200 whose body did not decode
C12_Witness ==
    \E t \in Threads :
        /\ ResponseDecodeFailed(t)
        /\ obs[t].sends = 2
        /\ attempt[t].statusCode = 200
        /\ returned[t].e.message = <<"decode", "error">>
        /\ returned[t].e.response.att = 2

\* the message of the error a call ends with when its last send a obtained a
\* response and is a failure: the transport error, or the status
ExpectedCallMessage(a) ==
    IF ExpectedLoopMessage(a) # <<>> THEN ExpectedLoopMessage(a)
    ELSE StatusMsgUpper(a.statusCode)

\* the call of thread t ended in a failure with a response
FailedWithResponse(t) ==
    /\ Returned(t)
    /\ LastHasResponse(t)
    /\ (~attempt[t].err.nil \/ attempt[t].statusCode \notin 200..299)

\* C13: when a call ends in a failure with a response and an error model is
\* supplied, the error returned is the original one (its message, with the
\* request and the response attached) whether or not the body decodes into
\* the error model, and the raw body is attached under "response_message"
\* exactly when the decoding was run and failed.
C13_ErrorModelKeepsError ==
    \A t \in Threads :
        FailedWithResponse(t) /\ config[t].ErrorModel
        => /\ ~returned[t].e.nil
           /\ returned[t].e.message = ExpectedCallMessage(attempt[t])
           /\ returned[t].e.request
           /\ returned[t].e.responseSet
           /\ returned[t].e.response = attempt[t].response
           /\ returned[t].response = attempt[t].response
           /\ (returned[t].e.extra = <<"response_message">>
                <=> (returned[t].decoded = "error" /\ returned[t].decodeErr))
           /\ returned[t].e.extra \in {<<>>, <<"response_message">>}

\* a call with an error model has returned the error of status 404 with the
\* raw body attached, the body not decoding into the error model
C13_Witness ==
    \E t \in Threads :
        /\ FailedWithResponse(t)
        /\ config[t].ErrorModel
        /\ attempt[t].statusCode = 404
        /\ returned[t].decodeErr
        /\ returned[t].e.extra = <<"response_message">>
        /\ returned[t].e.message = StatusMsgLower(404)

\* thread t is in a call or has returned from one
Called(t) == pc[t] # "idle"

\* C14: whenever raw bytes are supplied the body of the request is exactly
\* those bytes, with or without a body model and with the form flag unset,
\* false or true.
C14_RawBodyVerbatim ==
    \A t \in Threads :
        Called(t) /\ ~config[t].BodyRaw.nil /\ config[t].UrlOk
        => /\ ~request[t].nil
           /\ request[t].body = config[t].BodyRaw
           /\ (obs[t].sends > 0 => obs[t].first = config[t].BodyRaw.bytes)

\* C15: with the form flag true and a body model without raw bytes the body
\* of the request is the form encoding of the model whenever that encoding
\* succeeds, whether or not the model encodes as JSON or XML.
C15_FormBypassesJson ==
    \A t \in Threads :
        (/\ Called(t)
         /\ config[t].XWwwFormUrlEncoded = <<TRUE>>
         /\ ~config[t].BodyModel.nil
         /\ config[t].BodyRaw.nil
         /\ config[t].UrlOk
         /\ StructToUrl(config[t].BodyModel).err.nil)
        => /\ ~request[t].nil
           /\ request[t].body = StructToUrl(config[t].BodyModel).bytes

\* the closure of lines 117-157 returns an error for cfg in content mode
\* acc: without raw bytes the model does not marshal (line 131, reached
\* before the form flag is looked at), or the form flag is true and
\* StructToUrl fails on the model (line 139, reached with raw bytes as
\* well), or the URL is malformed (lines 124, 142, 156)
BuildMustFail(acc, cfg) ==
    \/ ~cfg.UrlOk
    \/ /\ cfg.BodyRaw.nil
       /\ ~cfg.BodyModel.nil
       /\ IF acc = AcceptXml THEN ~XmlMarshal(cfg.BodyModel).err.nil
          ELSE ~JsonMarshal(cfg.BodyModel).err.nil
    \/ /\ ~(cfg.BodyRaw.nil /\ cfg.BodyModel.nil)
       /\ cfg.XWwwFormUrlEncoded = <<TRUE>>
       /\ ~StructToUrl(cfg.BodyModel).err.nil

\* C17: when the body cannot be encoded or the URL is malformed, the call
\* returns a non-nil error with a nil request and a nil response, the
\* transport is never invoked and the request counter is unchanged.
C17_BuildErrorSendsNothing ==
    /\ [](\A t \in Threads :
            Called(t) /\ BuildMustFail(accept, config[t])
            => /\ pc[t] = "returned"
               /\ ~returned[t].e.nil
               /\ ~returned[t].request
               /\ returned[t].response.nil
               /\ request[t].nil
               /\ obs[t].sends = 0)
    /\ [][\A t \in Threads :
            BuildMustFail(accept, config'[t]) /\ ~Called(t) /\ Called(t)'
            => requestCount' = requestCount /\ obs' = obs]_vars

\* a call with a malformed URL has returned the error of the build after an
\* earlier call was counted, and the counter still reads one
C17_Witness ==
    \E t \in Threads :
        /\ pc[t] = "returned"
        /\ ~config[t].UrlOk
        /\ returned[t].e.message = <<"parse:", "invalid", "URL">>
        /\ obs[t].sends = 0
        /\ completed = 1
        /\ RequestCount = 1

\* the default headers of a request of cfg in content mode acc, by name
ExpectedDefaults(acc, cfg) ==
    [n \in HeaderNames |->
        IF acc = AcceptJson /\ n = "Accept" THEN <<"application/json">>
        ELSE IF acc = AcceptJson /\ n = "Content-Type" /\ ~cfg.BodyModel.nil
        THEN <<"application/json">>
        ELSE <<>>]

\* the keys of the overlay of cfg
OverlayKeys(cfg) ==
    IF cfg.NonDefaultHeaders.nil THEN {} ELSE DOMAIN cfg.NonDefaultHeaders.map

\* the keys of the overlay of cfg that name the same header as key k
SameName(cfg, k) ==
    {k2 \in OverlayKeys(cfg) : CanonicalKey(k2) = CanonicalKey(k)}

\* thread t has sent its request at least once
Sent(t) == Called(t) /\ obs[t].sends > 0

\* the headers of the request of thread t not named in its overlay are the
\* defaults of the content mode
DefaultsKept(t) ==
    \A n \in HeaderNames :
        (\A k \in OverlayKeys(config[t]) : CanonicalKey(k) # n)
        => obs[t].headers[n] = ExpectedDefaults(accept, config[t])[n]

\* C16 as stated: the headers of the sent request are the defaults of the
\* content mode, except that every header named by a key of the overlay has
\* exactly the value list the caller gave under that key.
C16_OverlayReplacesDefaults ==
    \A t \in Threads :
        Sent(t)
        => /\ DefaultsKept(t)
           /\ \A k \in OverlayKeys(config[t]) :
                obs[t].headers[CanonicalKey(k)] = config[t].NonDefaultHeaders.map[k]

\* C16 amended: the headers of the sent request are the defaults of the
\* content mode, except that every header named by exactly one key of the
\* overlay has exactly the value list the caller gave under that key, and a
\* header named by several keys of the overlay (keys that differ in case
\* only) has the value list of one of those keys.
C16_OverlayReplacesUnlessKeysCollide ==
    \A t \in Threads :
        Sent(t)
        => /\ DefaultsKept(t)
           /\ \A k \in OverlayKeys(config[t]) :
                /\ SameName(config[t], k) = {k}
                   => obs[t].headers[CanonicalKey(k)]
                        = config[t].NonDefaultHeaders.map[k]
                /\ \E k2 \in SameName(config[t], k) :
                        obs[t].headers[CanonicalKey(k)]
                            = config[t].NonDefaultHeaders.map[k2]

\* a request with a body model was sent in JSON mode with the two values the
\* overlay gave for content-type in place of the default and with the
\* default Accept
C16_Witness ==
    \E t \in Threads :
        /\ Sent(t)
        /\ accept = AcceptJson
        /\ ~config[t].BodyModel.nil
        /\ OverlayKeys(config[t]) = {"content-type"}
        /\ obs[t].headers["Content-Type"] = <<"text/plain", "text/csv">>
        /\ obs[t].headers["Accept"] = <<"application/json">>

\* C19: every non-nil error a call returns after at least one send has the
\* request attached and, when the last send obtained a response, that
\* response attached, on every error path: transport error, status outside
\* 200..299, failed decoding into the response model, failed read of the
\* response body on the success path.
C19_ErrorCarriesRequestAndResponse ==
    \A t \in Threads :
        Returned(t) /\ ~returned[t].e.nil
        => /\ returned[t].e.request
           /\ (LastHasResponse(t)
                => /\ returned[t].e.responseSet
                   /\ returned[t].e.response = attempt[t].response)

\* C20: the body of every response a call obtained is read into memory
\* exactly once, those of retried sends and that of a success without
\* response model included: when the call returns, the reads of response
\* bodies are as many as the sends that obtained a response.
C20_EveryResponseBodyReadOnce ==
    \A t \in Threads :
        Returned(t) => returned[t].read = obs[t].responses

\* the value of the most recent of the calls that set key, as a list of one
\* value, or the empty list when no call set key
LastSet(calls, key) ==
    LET idx == {i \in DOMAIN calls : calls[i][1] = key}
    IN  IF idx = {} THEN <<>>
        ELSE <<calls[CHOOSE i \in idx : \A j \in idx : j <= i][2]>>

\* C18: after any sequence of SetParameter calls, on a RequestConfig with or
\* without a parameter map, every key that was set maps to exactly one
\* value, that of the most recent call for the key; setting a key to a value
\* twice gives the same parameters as setting it once; FullUrl is the bare
\* URL when there is no parameter map and carries the encoded parameters
\* otherwise.
C18_SetParameterLastWins ==
    /\ \A key \in ParamKeys :
            LastSet(setCalls, key) # <<>>
            => /\ ~parameters.nil
               /\ key \in DOMAIN parameters.map
               /\ parameters.map[key] = LastSet(setCalls, key)
    /\ \A key \in ParamKeys, value \in ParamValues :
            WithParameter(WithParameter(parameters, key, value), key, value)
                = WithParameter(parameters, key, value)
    /\ parameters.nil => FullUrl(parameters) = <<BaseUrl>>
    /\ ~parameters.nil
       => FullUrl(parameters) = <<BaseUrl, "?">> \o Encode(parameters.map)

\* key a, which held two values at first, was set to 2 and then to 1, and b
\* was set in between: a holds the one value 1
C18_Witness ==
    /\ setCalls = <<(<<"a", "2">>), (<<"b", "1">>), (<<"a", "1">>)>>
    /\ parameters = ValuesOf(("a" :> <<"1">>) @@ ("b" :> <<"1">>))
    /\ FullUrl(parameters) = <<BaseUrl, "?", "a", "=", "1", "&", "b", "=", "1">>

\* the last send of thread t ended without transport error in a status
\* outside 200..299
EndedInStatus(t) ==
    /\ Returned(t)
    /\ LastHasResponse(t)
    /\ attempt[t].err.nil
    /\ attempt[t].statusCode \notin 200..299

\* C21: when the last send has no transport error and a status S outside
\* 200..299, the message of the error the call returns is exactly "Server
\* returned statuscode S" with a capital S, for 4xx and 5xx as for any other
\* such status.
C21_StatusMessageCapitalised ==
    \A t \in Threads :
        EndedInStatus(t)
        => /\ ~returned[t].e.nil
           /\ returned[t].e.message = StatusMsgUpper(attempt[t].statusCode)

\* C23: the response model is decoded into only when the last send has no
\* error and a status in 200..299, the error model only when the call
\* returns an error with a response; a call that ends in an error leaves
\* the response model unchanged, a call that succeeds leaves the error model
\* unchanged, and before the call returns (retried sends included) neither
\* model is touched.
C23_ModelsWrittenOnOwnPath ==
    \A t \in Threads :
        /\ Returned(t)
           => /\ (returned[t].decoded = "response"
                   => /\ attempt[t].err.nil
                      /\ attempt[t].statusCode \in 200..299)
              /\ (returned[t].decoded = "error"
                   => /\ ~returned[t].e.nil
                      /\ ~returned[t].response.nil)
              /\ (returned[t].decoded # "response"
                   => returned[t].responseModel = "unchanged")
              /\ (returned[t].decoded # "error"
                   => returned[t].errorModel = "unchanged")
              /\ (~returned[t].e.nil => returned[t].responseModel = "unchanged")
              /\ (returned[t].e.nil => returned[t].errorModel = "unchanged")
        /\ pc[t] # "returned"
           => /\ returned[t].responseModel = "unchanged"
              /\ returned[t].errorModel = "unchanged"

\* C22: two runs of HttpRequest on the same Service state, the same
\* RequestConfig and the same transport outcomes, one with ig.Debug() false
\* and one with ig.Debug() true, stand at the same step after every step,
\* have made the same number of sends with the same request bytes and
\* headers (and the same sleeps), return the same request, response and
\* error, and leave the same request counter.
C22_DebugDoesNotInfluence ==
    runs.fn = "HttpRequest"
    => /\ runs.quiet.pc = runs.loud.pc
       /\ runs.quiet.log.sends = runs.loud.log.sends
       /\ runs.quiet.log.bodies = runs.loud.log.bodies
       /\ runs.quiet.log.headers = runs.loud.log.headers
       /\ runs.quiet.log.sleeps = runs.loud.log.sleeps
       /\ runs.quiet.returned = runs.loud.returned
       /\ runs.quiet.requestCount = runs.loud.requestCount

\* a call with raw bytes and one retry was followed both ways and has
\* returned: each run sent the bytes twice and returned the error of status
\* 404; both printed the retry notice of line 380, and only the run with
\* ig.Debug() true printed diagnostics around it; another goroutine's call
\* was counted while the runs were under way, and the counter reads two
C22_Witness ==
    /\ runs.fn = "HttpRequest"
    /\ runs.in.cfg.BodyRaw = RawBody
    /\ runs.quiet.pc = "returned"
    /\ runs.quiet.log.bodies = <<(<<1, 2>>), (<<1, 2>>)>>
    /\ runs.loud.log.sends = 2
    /\ runs.loud.returned.e.message = StatusMsgLower(404)
    /\ runs.quiet.log.printed = <<"StatusCode ..., starting retry">>
    /\ runs.loud.log.printed = <<"FullUrl", "BodyRaw", "Request",
                                 "StatusCode ..., starting retry",
                                 "Response", "StatusCode">>
    /\ runs.quiet.others = 1
    /\ runs.loud.requestCount = 2

\* C24: doWithRetry called with a nil client or a nil request returns a nil
\* response and a nil error, sends nothing and does not sleep, whatever
\* maxRetries is and whatever ig.Debug() returns.
C24_NilClientOrRequestIsNoOp ==
    (runs.fn = "doWithRetry" /\ (runs.in.clientNil \/ runs.in.r.nil))
    => \A res \in {runs.quiet, runs.loud} :
            /\ res.pc \in {"enter", "left"}
            /\ res.response.nil
            /\ res.e.nil
            /\ res.log.sends = 0
            /\ res.log.sleeps = <<>>

\* doWithRetry was called with a nil client, a request and no override of
\* the budget, and has returned: nothing was sent
C24_Witness ==
    /\ runs.fn = "doWithRetry"
    /\ runs.in.clientNil
    /\ ~runs.in.r.nil
    /\ runs.in.cfg.MaxRetries = NilUint
    /\ runs.loud.pc = "left"
    /\ runs.loud.response.nil
    /\ runs.loud.e.nil
    /\ runs.loud.log.sends = 0
    /\ runs.loud.log.printed = <<"client is nil">>

====
